---- MODULE Spec2Model ----
(***************************************************************************)
(* Peer catalog synchronisation of RoamingLibrary_wNodeLinking_v2.ino:     *)
(* the ESP-NOW receive path (onDataReceived), the send-outcome callback,   *)
(* the periodic sweep and broadcast (updateNodeLinking, broadcastFiles).   *)
(* One node is modelled; the radio, the SD card and the clock are its      *)
(* environment. Spec, SpecSend and SpecCap take handlers as atomic steps;  *)
(* SpecIrq follows peers.remove_if element by element with the receive     *)
(* callback in between; SpecBoot starts at power-up; SpecPair puts a       *)
(* second node in range; SpecLive and SpecPair state fairness.             *)
(***************************************************************************)
EXTENDS Integers, Sequences, FiniteSets, TLC

VARIABLES
    now,                  \* true elapsed milliseconds since boot; millis() is now % 2^32
    peers,                \* std::list<PeerInfo> peers
    remoteFiles,          \* std::list<SharedFile> remoteFiles
    sendStatuses,         \* std::map<String, SendStatus> sendStatuses
    failedTransmissions,  \* static std::vector<SharedFile> in broadcastFiles
    lastBroadcast,        \* static unsigned long in updateNodeLinking
    sentTo,               \* destinations of sends the transport has accepted (callbacks owed)
    air,                  \* records the transport has accepted and not yet handed to a neighbour
    boot,                 \* where setup() stands, and what initializeESPNow did
    card,                 \* the files in the root directory of the SD card
    sweep,                \* where updateNodeLinking stands when it is followed step by step
    nRecv,                \* history: number of datagrams received so far
    resends,              \* history: per queued ticket, failed resend attempts so far
    seenHist,             \* history: per address, the lastSeen most recently recorded
    lastOp                \* history: the operation that produced this state, with its inputs

vars == <<now, peers, remoteFiles, sendStatuses, failedTransmissions,
          lastBroadcast, sentTo, air, boot, card, sweep, nRecv, resends, seenHist, lastOp>>

----------------------------------------------------------------------------
(* Program constants *)

MAX_PEERS == 20
BROADCAST_INTERVAL == 2000
PEER_TIMEOUT == 10000
MAX_RETRY == 3
RETRY_SPACING == 100
LED_FLASH_DELAY == 50
INIT_ATTEMPTS == 5
INIT_RETRY_DELAY == 100

\* unsigned long is 32 bits wide on the ESP8266; a value is held as its two
\* 16-bit halves <<high, low>>
Half == 2^16

\* sizeof(SharedFile): char[32], size_t (4 bytes), uint8_t[6], char[32],
\* padded to the 4-byte alignment of size_t
SizeofSharedFile == 32 + 4 + 6 + 32 + 2

----------------------------------------------------------------------------
(* Bounds of the model *)

MaxTime == 12100         \* the clock stops advancing here
MaxRecv == 3             \* datagrams received in one behaviour
MaxQueue == 2            \* length of failedTransmissions
MaxRetryCount == 4       \* cap of SendStatus.retryCount
MaxInitCalls == 7        \* calls of esp_now_init during setup
WrapLead == 12000        \* how long before the clock wraps the behaviours that cross the wrap begin
AcceptFrom == 4100       \* time from which the transport of the two-node system accepts every send

----------------------------------------------------------------------------
(* Addresses, labels and records the environment draws from *)

OwnMac == <<92, 207, 127, 0, 0, 1>>
broadcastMac == <<255, 255, 255, 255, 255, 255>>
PeerA == <<170, 187, 204, 221, 238, 255>>
PeerB == <<170, 187, 204, 221, 238, 1>>

AP_SSID == "PR0J3K7_B00KM4RK_07"

Senders == {PeerA, PeerB}

SharedFile(fn, sz, src, ssid) ==
    [filename |-> fn, filesize |-> sz, sourceNode |-> src, nodeSSID |-> ssid]

Records ==
    { SharedFile("notes.txt", 1024, PeerA, "NODE_07"),
      SharedFile("notes.txt", 2048, PeerA, "NODE_07"),
      SharedFile("notes.txt", 1024, PeerB, "NODE_08") }

\* datagrams of a wrong length: shorter, longer
BadLens == {SizeofSharedFile - 1, SizeofSharedFile + 1}

\* what a wrong-length datagram would decode to if it were copied out
BadData == SharedFile("junk.txt", 7, PeerB, "NODE_66")

\* the SD card's root directory, in openNextFile order
LocalFiles ==
    << [name |-> "a.txt", size |-> 10, byte31 |-> ""],
       [name |-> "img.bin", size |-> 20, byte31 |-> ""],
       [name |-> "B.PDF", size |-> 30, byte31 |-> ""] >>

\* other contents of the card: a name of 31 characters, one of 36, and a card
\* without any allow-listed file. byte31 is what the stack holds where the
\* last byte of sharedFile.filename comes to lie, which strncpy never writes:
\* "" stands for a 0 byte, "#" for any other
LongName31 == "the_collected_works_volume.epub"
LongName36 == "the_collected_works_volume_one_a.txt"

Directories ==
    { LocalFiles,
      << [name |-> "img.bin", size |-> 20, byte31 |-> ""] >> }
    \cup { << [name |-> LongName36, size |-> 40, byte31 |-> b],
              [name |-> "c.rtf", size |-> 50, byte31 |-> ""] >> : b \in {"", "#"} }
    \cup { << [name |-> LongName31, size |-> 60, byte31 |-> b] >> : b \in {"", "#"} }

Deltas == {BROADCAST_INTERVAL, PEER_TIMEOUT}

----------------------------------------------------------------------------
(* Arithmetic and conversions *)

\* the unsigned long holding n (n modulo 2^32)
U32(n) == <<(n \div Half) % Half, n % Half>>

\* the number an unsigned long holds, where it is small enough to write down
Val(a) == a[1] * Half + a[2]

millis(t) == U32(t)

\* unsigned long subtraction, modulo 2^32
Sub32(a, b) ==
    LET borrow == IF a[2] < b[2] THEN 1 ELSE 0
    IN  <<(a[1] - b[1] - borrow + Half) % Half, (a[2] - b[2] + Half) % Half>>

\* unsigned long comparison
Gt32(a, b) == a[1] > b[1] \/ (a[1] = b[1] /\ a[2] > b[2])

Ge32(a, b) == a = b \/ Gt32(a, b)

HexDigit == <<"0", "1", "2", "3", "4", "5", "6", "7",
              "8", "9", "A", "B", "C", "D", "E", "F">>

Hex2(b) == HexDigit[(b \div 16) + 1] \o HexDigit[(b % 16) + 1]

getMacString(mac) ==
    Hex2(mac[1]) \o ":" \o Hex2(mac[2]) \o ":" \o Hex2(mac[3]) \o ":" \o
    Hex2(mac[4]) \o ":" \o Hex2(mac[5]) \o ":" \o Hex2(mac[6])


\* String::toLowerCase, on the letters the model's file names use
UpperChars == <<"A", "B", "C", "D", "E", "F", "O", "P", "R", "T", "U", "X">>
LowerChars == <<"a", "b", "c", "d", "e", "f", "o", "p", "r", "t", "u", "x">>

toLowerChar(c) ==
    IF \E i \in 1..Len(UpperChars) : UpperChars[i] = c
    THEN LowerChars[CHOOSE i \in 1..Len(UpperChars) : UpperChars[i] = c]
    ELSE c

RECURSIVE toLowerCase(_)
toLowerCase(s) ==
    IF Len(s) = 0 THEN ""
    ELSE toLowerChar(SubSeq(s, 1, 1)) \o toLowerCase(SubSeq(s, 2, Len(s)))

endsWith(s, suffix) ==
    /\ Len(s) >= Len(suffix)
    /\ SubSeq(s, Len(s) - Len(suffix) + 1, Len(s)) = suffix

isAllowedFile(filename) ==
    LET lowerFilename == toLowerCase(filename)
    IN  \/ endsWith(lowerFilename, ".pdf")
        \/ endsWith(lowerFilename, ".epub")
        \/ endsWith(lowerFilename, ".doc")
        \/ endsWith(lowerFilename, ".rtf")
        \/ endsWith(lowerFilename, ".txt")

\* strncpy(dst, src, sizeof(dst) - 1): the characters it copies; it writes a
\* terminator only when the source is shorter than 31 characters
strncpy31(s) == IF Len(s) <= 31 THEN s ELSE SubSeq(s, 1, 31)

----------------------------------------------------------------------------
(* Receive path: onDataReceived *)

\* the length test that admits a datagram
LenOk_atMost(len) == len <= SizeofSharedFile

LenOk(len) == len = SizeofSharedFile

\* index of the first PeerInfo whose mac equals mac, 0 when there is none
PeerIndex(ps, mac) ==
    IF \E i \in 1..Len(ps) : ps[i].mac = mac
    THEN CHOOSE i \in 1..Len(ps) :
            /\ ps[i].mac = mac
            /\ \A j \in 1..(i - 1) : ps[j].mac # mac
    ELSE 0

UpsertPeer_alwaysPush(ps, mac, receivedFile, t) ==
    Append(ps, [mac |-> mac, lastSeen |-> t, ssid |-> receivedFile.nodeSSID])

UpsertPeer_byOrigin(ps, mac, receivedFile, t) ==
    LET i == PeerIndex(ps, receivedFile.sourceNode)
    IN  IF i # 0
        THEN [ps EXCEPT ![i].lastSeen = t, ![i].ssid = receivedFile.nodeSSID]
        ELSE Append(ps, [mac |-> receivedFile.sourceNode, lastSeen |-> t,
                         ssid |-> receivedFile.nodeSSID])

UpsertPeer_refreshSeconds(ps, mac, receivedFile, t) ==
    LET i == PeerIndex(ps, mac)
    IN  IF i # 0
        THEN [ps EXCEPT ![i].lastSeen = U32(Val(t) \div 1000),
                        ![i].ssid = receivedFile.nodeSSID]
        ELSE Append(ps, [mac |-> mac, lastSeen |-> t, ssid |-> receivedFile.nodeSSID])

UpsertPeer_moveToBack(ps, mac, receivedFile, t) ==
    LET Others(peer) == peer.mac # mac
    IN  Append(SelectSeq(ps, Others),
               [mac |-> mac, lastSeen |-> t, ssid |-> receivedFile.nodeSSID])

\* "Update peer's info": refresh the first record of the sender, else push_back
UpsertPeer(ps, mac, receivedFile, t) ==
    LET i == PeerIndex(ps, mac)
    IN  IF i # 0
        THEN [ps EXCEPT ![i].lastSeen = t, ![i].ssid = receivedFile.nodeSSID]
        ELSE Append(ps, [mac |-> mac, lastSeen |-> t, ssid |-> receivedFile.nodeSSID])

\* strcmp(file.filename, r.filename) == 0 && memcmp(file.sourceNode, r.sourceNode, 6) == 0
SameKey(file, receivedFile) ==
    /\ file.filename = receivedFile.filename
    /\ file.sourceNode = receivedFile.sourceNode

FileIndex(fs, receivedFile) ==
    IF \E i \in 1..Len(fs) : SameKey(fs[i], receivedFile)
    THEN CHOOSE i \in 1..Len(fs) :
            /\ SameKey(fs[i], receivedFile)
            /\ \A j \in 1..(i - 1) : ~SameKey(fs[j], receivedFile)
    ELSE 0

UpsertFile_alwaysPush(fs, receivedFile) == Append(fs, receivedFile)

UpsertFile_wholeRecord(fs, receivedFile) ==
    IF \E i \in 1..Len(fs) : fs[i] = receivedFile
    THEN fs
    ELSE Append(fs, receivedFile)

UpsertFile_keepFirst(fs, receivedFile) ==
    IF \E i \in 1..Len(fs) : SameKey(fs[i], receivedFile)
    THEN fs
    ELSE Append(fs, receivedFile)

UpsertFile_byFilename(fs, receivedFile) ==
    IF \E i \in 1..Len(fs) : fs[i].filename = receivedFile.filename
    THEN [i \in 1..Len(fs) |-> IF fs[i].filename = receivedFile.filename
                               THEN receivedFile ELSE fs[i]]
    ELSE Append(fs, receivedFile)

\* "Handle file info": overwrite the first entry with the key, else push_back
UpsertFile(fs, receivedFile) ==
    LET i == FileIndex(fs, receivedFile)
    IN  IF i # 0
        THEN [fs EXCEPT ![i] = receivedFile]
        ELSE Append(fs, receivedFile)

\* history: the lastSeen each address now carries, and whether a sweep ever
\* removed the address
NoteSeen(hist, ps) ==
    [m \in DOMAIN hist \cup {ps[i].mac : i \in 1..Len(ps)} |->
        IF \E i \in 1..Len(ps) : ps[i].mac = m
        THEN [lastSeen |-> ps[CHOOSE i \in 1..Len(ps) : ps[i].mac = m].lastSeen,
              evicted |-> m \in DOMAIN hist /\ hist[m].evicted]
        ELSE hist[m]]

NoteEvicted(hist, gone) ==
    [m \in DOMAIN hist |->
        IF m \in gone THEN [hist[m] EXCEPT !.evicted = TRUE] ELSE hist[m]]

onDataReceived(mac, data, len) ==
    /\ now + LED_FLASH_DELAY <= MaxTime
    /\ now' = now + LED_FLASH_DELAY
    /\ IF LenOk(len)
       THEN /\ peers' = UpsertPeer(peers, mac, data, millis(now'))
            /\ remoteFiles' = UpsertFile(remoteFiles, data)
       ELSE UNCHANGED <<peers, remoteFiles>>
    /\ nRecv' = nRecv + 1
    /\ seenHist' = NoteSeen(seenHist, peers')
    /\ lastOp' = [op |-> "recv", mac |-> mac, data |-> data, len |-> len,
                  again |-> /\ lastOp.op = "recv"
                            /\ lastOp.len = SizeofSharedFile
                            /\ lastOp.data = data,
                  old |-> IF LenOk(len) /\ FileIndex(remoteFiles, data) # 0
                          THEN <<remoteFiles[FileIndex(remoteFiles, data)]>>
                          ELSE <<>>]
    /\ UNCHANGED <<sendStatuses, failedTransmissions, lastBroadcast, sentTo,
                   boot, card, sweep, resends>>

----------------------------------------------------------------------------
(* Send-outcome callback registered in initializeESPNow *)

\* getMacString of the addresses that are ever formatted, computed once
MacStringOf == [m \in {OwnMac, broadcastMac, PeerA, PeerB} |-> getMacString(m)]

DefaultStatus == [success |-> FALSE, retryCount |-> 0, lastTry |-> U32(0)]

\* std::map::operator[]: a missing key is inserted with a value-initialised SendStatus
Touch(ss, k) == IF k \in DOMAIN ss THEN ss ELSE ss @@ (k :> DefaultStatus)

SendCb_create(ss, mac_addr, sendStatus) ==
    LET macString == MacStringOf[mac_addr]
    IN  IF sendStatus # 0
        THEN [Touch(ss, macString) EXCEPT ![macString].success = FALSE,
                                          ![macString].retryCount = @ + 1]
        ELSE ss

\* the body of the send callback, on the map of statuses
SendCb(ss, mac_addr, sendStatus) ==
    LET macString == MacStringOf[mac_addr]
    IN  IF sendStatus # 0 /\ macString \in DOMAIN ss
        THEN [ss EXCEPT ![macString].success = FALSE,
                        ![macString].retryCount = @ + 1]
        ELSE ss

onDataSent(mac_addr, sendStatus) ==
    /\ \A k \in DOMAIN sendStatuses :
          SendCb(sendStatuses, mac_addr, sendStatus)[k].retryCount <= MaxRetryCount
    /\ sendStatuses' = SendCb(sendStatuses, mac_addr, sendStatus)
    /\ lastOp' = [op |-> "sendcb", mac |-> mac_addr, status |-> sendStatus]
    /\ UNCHANGED <<now, peers, remoteFiles, failedTransmissions, lastBroadcast,
                   sentTo, air, boot, card, sweep, nRecv,
                   resends, seenHist>>

----------------------------------------------------------------------------
(* Dissemination: broadcastFiles *)

StatusKey_byDestination(sharedFile) == MacStringOf[broadcastMac]

\* the sendStatuses key of a record: getMacString(it->sourceNode)
StatusKey(sharedFile) == MacStringOf[sharedFile.sourceNode]

SatInc(n) == IF n < MAX_RETRY + 1 THEN n + 1 ELSE n

RetryStep_dropRefused(acc, ticket, rcount, ok, t) ==
    LET macStr == StatusKey(ticket)
        ss == Touch(acc.ss, macStr)
    IN  IF ss[macStr].retryCount < MAX_RETRY
        THEN IF Ge32(Sub32(t, ss[macStr].lastTry), U32(RETRY_SPACING))
             THEN [acc EXCEPT !.ss = IF ok THEN [ss EXCEPT ![macStr].lastTry = t] ELSE ss,
                              !.sent = @ \/ ok,
                              !.log = Append(@, [phase |-> "retry", file |-> ticket,
                                                 ok |-> ok])]
             ELSE [acc EXCEPT !.ss = ss,
                              !.ft = Append(@, ticket),
                              !.rs = Append(@, rcount)]
        ELSE [acc EXCEPT !.ss = ss]

\* one iteration of the retry loop; acc.ft and acc.rs collect the tickets that stay
RetryStep(acc, ticket, rcount, ok, t) ==
    LET macStr == StatusKey(ticket)
        ss == Touch(acc.ss, macStr)
    IN  IF ss[macStr].retryCount < MAX_RETRY
        THEN IF Ge32(Sub32(t, ss[macStr].lastTry), U32(RETRY_SPACING))
             THEN IF ok
                  THEN [acc EXCEPT !.ss = [ss EXCEPT ![macStr].lastTry = t],
                                   !.sent = TRUE,
                                   !.log = Append(@, [phase |-> "retry", file |-> ticket,
                                                      ok |-> TRUE])]
                  ELSE [acc EXCEPT !.ss = ss,
                                   !.ft = Append(@, ticket),
                                   !.rs = Append(@, SatInc(rcount)),
                                   !.log = Append(@, [phase |-> "retry", file |-> ticket,
                                                      ok |-> FALSE])]
             ELSE [acc EXCEPT !.ss = ss,
                              !.ft = Append(@, ticket),
                              !.rs = Append(@, rcount)]
        ELSE [acc EXCEPT !.ss = ss]

RECURSIVE RetryPhase(_, _, _, _, _, _)
RetryPhase(acc, ft, rs, retryOk, i, t) ==
    IF i > Len(ft) THEN acc
    ELSE RetryPhase(RetryStep(acc, ft[i], rs[i], retryOk[i], t), ft, rs, retryOk, i + 1, t)

\* isAllowedFile of the names in the directory, computed once
AllowedName ==
    [n \in UNION {{d[i].name : i \in 1..Len(d)} : d \in Directories} |-> isAllowedFile(n)]

LocalRecord_toBroadcast(file) ==
    SharedFile(strncpy31(file.name) \o (IF Len(file.name) >= 31 THEN file.byte31 ELSE ""),
               file.size, broadcastMac, strncpy31(AP_SSID))

\* the record built for a local file
LocalRecord(file) ==
    SharedFile(strncpy31(file.name) \o (IF Len(file.name) >= 31 THEN file.byte31 ELSE ""),
               file.size, OwnMac, strncpy31(AP_SSID))

FreshStep_enqueueAccepted(acc, file, ok, t) ==
    IF AllowedName[file.name]
    THEN LET sharedFile == LocalRecord(file)
         IN  IF ok
             THEN [acc EXCEPT !.ft = Append(@, sharedFile),
                              !.rs = Append(@, 0),
                              !.sent = TRUE,
                              !.log = Append(@, [phase |-> "fresh", file |-> sharedFile,
                                                 ok |-> TRUE])]
             ELSE [acc EXCEPT !.log = Append(@, [phase |-> "fresh", file |-> sharedFile,
                                                 ok |-> FALSE])]
    ELSE acc

\* one iteration of the directory loop
FreshStep(acc, file, ok, t) ==
    IF AllowedName[file.name]
    THEN LET sharedFile == LocalRecord(file)
         IN  IF ~ok
             THEN [acc EXCEPT !.ft = Append(@, sharedFile),
                              !.rs = Append(@, 0),
                              !.ss = [k \in DOMAIN @ \cup {StatusKey(sharedFile)} |->
                                         IF k = StatusKey(sharedFile)
                                         THEN [success |-> FALSE, retryCount |-> 0, lastTry |-> t]
                                         ELSE @[k]],
                              !.log = Append(@, [phase |-> "fresh", file |-> sharedFile,
                                                 ok |-> FALSE])]
             ELSE [acc EXCEPT !.sent = TRUE,
                              !.log = Append(@, [phase |-> "fresh", file |-> sharedFile,
                                                 ok |-> TRUE])]
    ELSE acc

RECURSIVE FreshPhase(_, _, _, _, _)
FreshPhase(acc, files, freshOk, i, t) ==
    IF i > Len(files) THEN acc
    ELSE FreshPhase(FreshStep(acc, files[i], freshOk[i], t), files, freshOk, i + 1, t)

broadcastFiles_freshFirst(ft, rs, ss, retryOk, freshOk, sdOk, t) ==
    LET start == [ft |-> ft, rs |-> rs, ss |-> ss, sent |-> FALSE, log |-> <<>>,
                  kept |-> Len(ft)]
        fresh == IF sdOk THEN FreshPhase(start, card, freshOk, 1, t) ELSE start
        again == [i \in 1..Len(fresh.ft) |-> IF i <= Len(retryOk) THEN retryOk[i] ELSE TRUE]
    IN  RetryPhase([fresh EXCEPT !.ft = <<>>, !.rs = <<>>], fresh.ft, fresh.rs, again, 1, t)

\* broadcastFiles(): the result of one call, as [ft, rs, ss, sent, log, kept]:
\* log is the history of its esp_now_send calls in order, kept the length of
\* the queue when the retry loop ends
broadcastFiles(ft, rs, ss, retryOk, freshOk, sdOk, t) ==
    LET start == [ft |-> <<>>, rs |-> <<>>, ss |-> ss, sent |-> FALSE, log |-> <<>>,
                  kept |-> 0]
        retried == RetryPhase(start, ft, rs, retryOk, 1, t)
        marked == [retried EXCEPT !.kept = Len(retried.ft)]
    IN  IF ~sdOk THEN marked
        ELSE FreshPhase(marked, card, freshOk, 1, t)

\* the records of the sends the transport accepted
Accepted(log) == {log[i].file : i \in {j \in 1..Len(log) : log[j].ok}}

----------------------------------------------------------------------------
(* Liveness sweep and tick: updateNodeLinking *)

IsStale_doubled(currentTime, peer) ==
    Gt32(Sub32(currentTime, peer.lastSeen), U32(2 * PEER_TIMEOUT))

IsStale_deadline(currentTime, peer) ==
    Gt32(currentTime, Sub32(peer.lastSeen, Sub32(U32(0), U32(PEER_TIMEOUT))))

\* the remove_if predicate
IsStale(currentTime, peer) ==
    Gt32(Sub32(currentTime, peer.lastSeen), U32(PEER_TIMEOUT))

RemoveIf(ps, currentTime) ==
    SelectSeq(ps, LAMBDA peer : ~IsStale(currentTime, peer))

BroadcastDue(currentTime, last) ==
    Ge32(Sub32(currentTime, last), U32(BROADCAST_INTERVAL))

MacsOf(ps) == {ps[i].mac : i \in 1..Len(ps)}

\* updateNodeLinking from the end of its remove_if on: swept is the list the
\* remove_if left, evicted the addresses it removed
AfterRemoveIf(swept, evicted, currentTime, retryOk, freshOk, sdOk) ==
    LET due == BroadcastDue(currentTime, lastBroadcast)
    IN  \E res \in {broadcastFiles(failedTransmissions, resends, sendStatuses,
                              retryOk, freshOk, sdOk, millis(now))} :
        /\ peers' = swept
        /\ IF due
           THEN /\ failedTransmissions' = res.ft
                /\ resends' = res.rs
                /\ sendStatuses' = res.ss
                /\ sentTo' = IF res.sent THEN sentTo \cup {broadcastMac} ELSE sentTo
                /\ air' = air \cup Accepted(res.log)
                /\ lastBroadcast' = currentTime
           ELSE UNCHANGED <<failedTransmissions, resends, sendStatuses, sentTo, air,
                            lastBroadcast>>
        /\ lastOp' = [op |-> "tick", due |-> due,
                      evicted |-> evicted,
                      sd |-> due /\ sdOk,
                      log |-> IF due THEN res.log ELSE <<>>,
                      kept |-> IF due THEN res.kept ELSE Len(failedTransmissions)]
        /\ seenHist' = NoteEvicted(seenHist, evicted)
        /\ UNCHANGED <<now, remoteFiles, boot, card, nRecv>>

\* updateNodeLinking() run without interruption
updateNodeLinking(retryOk, freshOk, sdOk) ==
    LET currentTime == millis(now)
        swept == RemoveIf(peers, currentTime)
    IN  /\ AfterRemoveIf(swept, MacsOf(peers) \ MacsOf(swept), currentTime,
                         retryOk, freshOk, sdOk)
        /\ UNCHANGED sweep

----------------------------------------------------------------------------
(* The clock *)

Advance(d) ==
    /\ now + d <= MaxTime
    /\ now' = now + d
    /\ lastOp' = [op |-> "advance"]
    /\ UNCHANGED <<peers, remoteFiles, sendStatuses, failedTransmissions,
                   lastBroadcast, sentTo, air, boot, card, sweep, nRecv,
                   resends, seenHist>>

----------------------------------------------------------------------------
(* Specification *)

\* setup() has returned: ESP-NOW is up with its callbacks, the SD card and the
\* web server are up, loop() runs
Booted == [pc |-> "loop", initRetry |-> 0, calls |-> 0, espnow |-> TRUE, serving |-> TRUE]

\* updateNodeLinking is not in its remove_if
Idle == [pc |-> "idle"]

Init ==
    /\ now = 0
    /\ peers = <<>>
    /\ remoteFiles = <<>>
    /\ sendStatuses = <<>>
    /\ failedTransmissions = <<>>
    /\ lastBroadcast = U32(0)
    /\ sentTo = {}
    /\ air = {}
    /\ boot = Booted
    /\ card = LocalFiles
    /\ sweep = Idle
    /\ nRecv = 0
    /\ resends = <<>>
    /\ seenHist = <<>>
    /\ lastOp = [op |-> "init"]

Outcomes(n) == [1..n -> BOOLEAN]

\* send results of a directory pass: only an allow-listed file is sent
FreshOutcomes ==
    {f \in Outcomes(Len(LocalFiles)) :
        \A i \in 1..Len(LocalFiles) : ~AllowedName[LocalFiles[i].name] => f[i]}

AllOk(n) == [i \in 1..n |-> TRUE]

\* a datagram arrives: well-formed from any sender, or of a wrong length
Receive ==
    /\ nRecv < MaxRecv
    /\ \/ \E mac \in Senders, data \in Records :
             onDataReceived(mac, data, SizeofSharedFile)
       \/ \E len \in BadLens : onDataReceived(PeerA, BadData, len)
    /\ UNCHANGED air

\* the transport reports the outcome of a send it had accepted
SendOutcome ==
    \E mac_addr \in sentTo, sendStatus \in {0, 1} : onDataSent(mac_addr, sendStatus)

\* one pass of loop(): sweep, and the broadcast when it is due; the transport
\* accepts or refuses each send, the SD card opens or not
TickWith(retrySet, freshSet, sdSet) ==
    \E retryOk \in retrySet, freshOk \in freshSet, sdOk \in sdSet :
       /\ updateNodeLinking(retryOk, freshOk, sdOk)
       /\ Len(failedTransmissions') <= MaxQueue

Due == BroadcastDue(millis(now), lastBroadcast)

\* a pass in which the transport accepts every send
Tick ==
    TickWith({AllOk(Len(failedTransmissions))}, {AllOk(Len(card))}, {TRUE})

Elapse == \E d \in Deltas : Advance(d)

Next == Receive \/ SendOutcome \/ Tick \/ Elapse

Spec == Init /\ [][Next]_vars

----------------------------------------------------------------------------
(* The same node with an unreliable transport and one neighbour *)

ReceiveOne ==
    /\ nRecv < 1
    /\ onDataReceived(PeerA, SharedFile("notes.txt", 1024, PeerA, "NODE_07"),
                      SizeofSharedFile)
    /\ UNCHANGED air

TickAny ==
    IF Due
    THEN \/ TickWith(Outcomes(Len(failedTransmissions)), FreshOutcomes, {TRUE})
         \/ TickWith(Outcomes(Len(failedTransmissions)), {AllOk(Len(card))}, {FALSE})
    ELSE TickWith({AllOk(Len(failedTransmissions))}, {AllOk(Len(card))}, {TRUE})

NextSend == ReceiveOne \/ SendOutcome \/ TickAny \/ Elapse

SpecSend == Init /\ [][NextSend]_vars

----------------------------------------------------------------------------
(* The same node among more neighbours than MAX_PEERS: neighbour k announces *)
(* itself once k-1 neighbours are known                                      *)

CapMac(k) == <<2, 0, 0, 0, 0, k>>

CapRecord(k) == SharedFile("notes.txt", 1024, CapMac(1), "NODE_07")

ReceiveCap ==
    /\ nRecv < MAX_PEERS + 2
    /\ onDataReceived(CapMac(Len(peers) + 1), CapRecord(Len(peers) + 1),
                      SizeofSharedFile)
    /\ UNCHANGED air

ElapseLong == Advance(PEER_TIMEOUT)

NextCap == ReceiveCap \/ SendOutcome \/ Tick \/ ElapseLong

SpecCap == Init /\ [][NextCap]_vars

----------------------------------------------------------------------------
(* The same node with the receive callback run from interrupt context: it    *)
(* may run between any two steps of peers.remove_if, which is followed one   *)
(* list element at a time                                                    *)

\* updateNodeLinking reads millis() and enters peers.remove_if
SweepBegin ==
    /\ sweep.pc = "idle"
    /\ sweep' = [pc |-> "remove_if", currentTime |-> millis(now), i |-> 1, evicted |-> {}]
    /\ lastOp' = [op |-> "sweep_begin"]
    /\ UNCHANGED <<now, peers, remoteFiles, sendStatuses, failedTransmissions,
                   lastBroadcast, sentTo, air, boot, card, nRecv,
                   resends, seenHist>>

\* remove_if applies its predicate to the element it stands at: the element is
\* erased, or the iterator moves on
SweepStep ==
    /\ sweep.pc = "remove_if"
    /\ sweep.i <= Len(peers)
    /\ IF IsStale(sweep.currentTime, peers[sweep.i])
       THEN /\ peers' = [k \in 1..(Len(peers) - 1) |->
                            IF k < sweep.i THEN peers[k] ELSE peers[k + 1]]
            /\ sweep' = [sweep EXCEPT !.evicted = @ \cup {peers[sweep.i].mac}]
       ELSE /\ peers' = peers
            /\ sweep' = [sweep EXCEPT !.i = @ + 1]
    /\ lastOp' = [op |-> "sweep_step"]
    /\ UNCHANGED <<now, remoteFiles, sendStatuses, failedTransmissions,
                   lastBroadcast, sentTo, air, boot, card, nRecv,
                   resends, seenHist>>

\* remove_if has reached the end of the list: the rest of updateNodeLinking
SweepEnd ==
    /\ sweep.pc = "remove_if"
    /\ sweep.i > Len(peers)
    /\ AfterRemoveIf(peers, sweep.evicted, sweep.currentTime,
                     AllOk(Len(failedTransmissions)), AllOk(Len(card)), TRUE)
    /\ sweep' = Idle

\* time passes between two passes of loop()
ElapseIdle == sweep.pc = "idle" /\ Elapse

\* a well-formed datagram arrives from either neighbour, at any point
ReceiveEither ==
    /\ nRecv < MaxRecv
    /\ \E mac \in Senders :
          onDataReceived(mac, SharedFile("notes.txt", 1024, PeerA, "NODE_07"),
                         SizeofSharedFile)
    /\ UNCHANGED air

NextIrq == ReceiveEither \/ SweepBegin \/ SweepStep \/ SweepEnd \/ ElapseIdle

SpecIrq == Init /\ [][NextIrq]_vars

----------------------------------------------------------------------------
(* The node pages of the web interface: handleFileList, handleNodeFiles      *)

\* the node links handleFileList renders for the remote nodes, one per record
\* of peers, each carrying that record's ssid as its node argument
handleFileList == [i \in 1..Len(peers) |-> peers[i].ssid]

\* the entries handleNodeFiles renders for the node argument nodeSSID
handleNodeFiles(nodeSSID) ==
    IF nodeSSID = AP_SSID
    THEN LET allowed == SelectSeq(card, LAMBDA file : AllowedName[file.name])
         IN  [k \in 1..Len(allowed) |->
                SharedFile(allowed[k].name, allowed[k].size, OwnMac, AP_SSID)]
    ELSE SelectSeq(remoteFiles,
                   LAMBDA remoteFile : /\ remoteFile.nodeSSID = nodeSSID
                                       /\ isAllowedFile(remoteFile.filename))

\* AP_SSID_BASE followed by the number a node draws in setup()
Labels == {"PR0J3K7_B00KM4RK_07", "PR0J3K7_B00KM4RK_42"}

\* a neighbour broadcasts a record of its own: the origin is the sender, the
\* label the one it drew at its last start
ReceiveOwn ==
    /\ nRecv < MaxRecv
    /\ \E mac \in Senders, ssid \in Labels :
          onDataReceived(mac, SharedFile("notes.txt", 1024, mac, ssid),
                         SizeofSharedFile)
    /\ UNCHANGED air

NextList == ReceiveOwn \/ Tick \/ Elapse

SpecList == Init /\ [][NextList]_vars

----------------------------------------------------------------------------
(* The node and its two neighbours, handlers uninterrupted, with loop()      *)
(* never ceasing to run                                                      *)

NextLive == ReceiveEither \/ Tick \/ Elapse

SpecLive == Init /\ [][NextLive]_vars /\ WF_vars(Tick)

----------------------------------------------------------------------------
(* The node some 49.7 days after power-up, when millis() is about to wrap:   *)
(* now counts from the instant of the wrap and begins below zero, the clock  *)
(* then reads 2^32 + now                                                     *)

WrapStarts == {-WrapLead, -BROADCAST_INTERVAL}

\* the tick has just run, nothing is queued and no neighbour is known
InitWrap ==
    /\ now \in WrapStarts
    /\ peers = <<>>
    /\ remoteFiles = <<>>
    /\ sendStatuses = <<>>
    /\ failedTransmissions = <<>>
    /\ lastBroadcast = millis(now)
    /\ sentTo = {broadcastMac}
    /\ air = {}
    /\ boot = Booted
    /\ card = LocalFiles
    /\ sweep = Idle
    /\ nRecv = 0
    /\ resends = <<>>
    /\ seenHist = <<>>
    /\ lastOp = [op |-> "init"]

SpecWrap == InitWrap /\ [][NextLive]_vars

----------------------------------------------------------------------------
(* Two nodes in range, A and B, running this program. The model follows A's  *)
(* dissemination (failedTransmissions, sendStatuses, lastBroadcast, the      *)
(* records on the air) and B's reception (peers, remoteFiles); a pass of     *)
(* loop() is A's broadcast and B's sweep. The transport may refuse A's sends *)
(* until AcceptFrom, and hands every record it accepted to B                 *)

\* B's receive callback gets a record A broadcast; the sender is A
Deliver ==
    \E data \in air :
       /\ onDataReceived(OwnMac, data, SizeofSharedFile)
       /\ air' = air \ {data}

TickPair ==
    IF Due /\ now < AcceptFrom
    THEN TickWith(Outcomes(Len(failedTransmissions)), FreshOutcomes, {TRUE})
    ELSE Tick

\* time passes; the clock of the model stops early enough for B to take in
\* what two passes of A put on the air
ElapsePair ==
    /\ now + BROADCAST_INTERVAL + 4 * LED_FLASH_DELAY <= MaxTime
    /\ Advance(BROADCAST_INTERVAL)

NextPair == TickPair \/ Deliver \/ ElapsePair \/ SendOutcome

\* A's loop keeps running, time passes, and the transport delivers
SpecPair ==
    /\ Init
    /\ [][NextPair]_vars
    /\ WF_vars(TickPair)
    /\ WF_vars(Deliver)
    /\ WF_vars(ElapsePair)

----------------------------------------------------------------------------
(* The same node with any of several SD cards, the transport accepting or    *)
(* refusing each send                                                        *)

InitDir ==
    /\ now = 0
    /\ peers = <<>>
    /\ remoteFiles = <<>>
    /\ sendStatuses = <<>>
    /\ failedTransmissions = <<>>
    /\ lastBroadcast = U32(0)
    /\ sentTo = {}
    /\ air = {}
    /\ boot = Booted
    /\ card \in Directories
    /\ sweep = Idle
    /\ nRecv = 0
    /\ resends = <<>>
    /\ seenHist = <<>>
    /\ lastOp = [op |-> "init"]

TickDir ==
    IF Due
    THEN TickWith(Outcomes(Len(failedTransmissions)), Outcomes(Len(card)), BOOLEAN)
    ELSE Tick

NextDir == TickDir \/ Elapse \/ SendOutcome

SpecDir == InitDir /\ [][NextDir]_vars

----------------------------------------------------------------------------
(* The node from power-up: setup() calls initializeESPNow() and SD.begin(),  *)
(* then loop() runs whether or not setup() ran to its end                    *)

PowerUp == [pc |-> "initializeESPNow", initRetry |-> 0, calls |-> 0,
            espnow |-> FALSE, serving |-> FALSE]

InitLoop_noLimit(b, ok) ==
    IF ok
    THEN [b EXCEPT !.calls = @ + 1, !.espnow = TRUE, !.pc = "SD.begin"]
    ELSE [b EXCEPT !.calls = @ + 1, !.initRetry = @ + 1]

\* one evaluation of while (esp_now_init() != 0) and, when it failed, the body
\* of the loop; after the loop the callbacks are registered
InitLoop(b, ok) ==
    IF ok
    THEN [b EXCEPT !.calls = @ + 1, !.espnow = TRUE, !.pc = "SD.begin"]
    ELSE [b EXCEPT !.calls = @ + 1,
                   !.initRetry = @ + 1,
                   !.pc = IF b.initRetry + 1 >= INIT_ATTEMPTS THEN "SD.begin" ELSE @]

EspNowInit ==
    /\ boot.pc = "initializeESPNow"
    /\ boot.calls < MaxInitCalls
    /\ \E ok \in BOOLEAN :
          /\ boot' = InitLoop(boot, ok)
          /\ IF ok THEN now' = now
             ELSE /\ now + INIT_RETRY_DELAY <= MaxTime
                  /\ now' = now + INIT_RETRY_DELAY
    /\ lastOp' = [op |-> "esp_now_init"]
    /\ UNCHANGED <<peers, remoteFiles, sendStatuses, failedTransmissions, lastBroadcast,
                   sentTo, air, card, sweep, nRecv, resends, seenHist>>

\* SD.begin(): on failure setup() returns at once, else it goes on to
\* server.begin()
SdBegin ==
    /\ boot.pc = "SD.begin"
    /\ \E ok \in BOOLEAN : boot' = [boot EXCEPT !.pc = "loop", !.serving = ok]
    /\ lastOp' = [op |-> "SD.begin"]
    /\ UNCHANGED <<now, peers, remoteFiles, sendStatuses, failedTransmissions,
                   lastBroadcast, sentTo, air, card, sweep, nRecv, resends, seenHist>>

SetupStep == EspNowInit \/ SdBegin

\* loop() after setup(): the callbacks exist only if esp_now_init succeeded;
\* the transport accepts every send when it is up, and may do anything with a
\* send when it was never initialised
LoopStep ==
    /\ boot.pc = "loop"
    /\ \/ boot.espnow /\ Tick
       \/ ~boot.espnow /\ TickAny
       \/ Elapse
       \/ boot.espnow /\ ReceiveOne
       \/ boot.espnow /\ SendOutcome

InitBoot ==
    /\ now = 0
    /\ peers = <<>>
    /\ remoteFiles = <<>>
    /\ sendStatuses = <<>>
    /\ failedTransmissions = <<>>
    /\ lastBroadcast = U32(0)
    /\ sentTo = {}
    /\ air = {}
    /\ boot = PowerUp
    /\ card = LocalFiles
    /\ sweep = Idle
    /\ nRecv = 0
    /\ resends = <<>>
    /\ seenHist = <<>>
    /\ lastOp = [op |-> "init"]

NextBoot == SetupStep \/ LoopStep

\* setup() is straight-line code: it keeps running until it returns
SpecBoot == InitBoot /\ [][NextBoot]_vars /\ WF_vars(SetupStep)

----------------------------------------------------------------------------
(* Properties *)

WellFormedRecv(op) == op.op = "recv" /\ op.len = SizeofSharedFile

KeysOf(fs) == {<<fs[i].filename, fs[i].sourceNode>> : i \in 1..Len(fs)}

\* C1: a datagram whose length is not sizeof(SharedFile) leaves peers and
\* remoteFiles exactly as they were.
C1_DropOnMalformed ==
    [][(lastOp'.op = "recv" /\ lastOp'.len # SizeofSharedFile /\ nRecv' = nRecv + 1)
          => (peers' = peers /\ remoteFiles' = remoteFiles)]_vars

\* a wrong-length datagram has just been handled by a node that knows a peer and a file
C1_Witness ==
    /\ lastOp.op = "recv"
    /\ lastOp.len # SizeofSharedFile
    /\ peers # <<>>
    /\ remoteFiles # <<>>

\* C2: remoteFiles never holds two entries with the same (filename, sourceNode).
C2_KeyUnique ==
    \A i, j \in 1..Len(remoteFiles) :
        (/\ remoteFiles[i].filename = remoteFiles[j].filename
         /\ remoteFiles[i].sourceNode = remoteFiles[j].sourceNode) => i = j

\* three datagrams in: the first key was stored, a second key was stored, and
\* the first key has just been received again with size 2048
C2_Witness ==
    /\ WellFormedRecv(lastOp)
    /\ nRecv = 3
    /\ Len(remoteFiles) = 2
    /\ lastOp.data.filesize = 2048
    /\ remoteFiles[1] = lastOp.data

\* C3: peers never holds two records with the same address.
C3_PeerUnique ==
    \A i, j \in 1..Len(peers) : peers[i].mac = peers[j].mac => i = j

\* a sweep removed one of two peers and kept the other, and the removed one
\* has just sent again: two peers are known
C3_Witness ==
    /\ WellFormedRecv(lastOp)
    /\ Len(peers) = 2
    /\ peers[2].mac = lastOp.mac
    /\ seenHist[lastOp.mac].evicted

C5_Idempotent ==
    [][(/\ WellFormedRecv(lastOp)
        /\ WellFormedRecv(lastOp')
        /\ lastOp'.data = lastOp.data
        /\ nRecv' = nRecv + 1)
          => remoteFiles' = remoteFiles]_vars

\* the same record has just been received twice in a row, into a catalog that
\* also holds another key
C5_Witness ==
    /\ WellFormedRecv(lastOp)
    /\ lastOp.again
    /\ Len(remoteFiles) = 2

\* C6: a peer with now - lastSeen > PEER_TIMEOUT when updateNodeLinking runs is
\* not in peers when it returns.
C6_EvictsStale ==
    [][lastOp'.op = "tick"
          => \A i \in 1..Len(peers) :
                now - Val(peers[i].lastSeen) > PEER_TIMEOUT
                   => peers[i].mac \notin MacsOf(peers')]_vars

\* a sweep has just removed a peer and kept another
C6_Witness ==
    /\ lastOp.op = "tick"
    /\ lastOp.evicted # {}
    /\ peers # <<>>

\* C7: the retryCount that governs each queued record is at most MAX_RETRY.
C7_RetryBound ==
    \A i \in 1..Len(failedTransmissions) :
        StatusKey(failedTransmissions[i]) \in DOMAIN sendStatuses
           => sendStatuses[StatusKey(failedTransmissions[i])].retryCount <= MAX_RETRY

\* a send-outcome callback has just reported a failure while a record is queued
\* and its status has been through a retry pass
C7_Witness ==
    /\ lastOp.op = "sendcb"
    /\ lastOp.status # 0
    /\ failedTransmissions # <<>>
    /\ \E i \in 1..Len(resends) : resends[i] >= 1

\* C8: no queued record is resent more than MAX_RETRY times.
C8_BoundedResend ==
    \A i \in 1..Len(resends) : resends[i] <= MAX_RETRY

\* C9: peers never holds more than MAX_PEERS records.
C9_RegistryBounded == Len(peers) <= MAX_PEERS

\* C10: a well-formed datagram from sender S carrying origin O creates or
\* refreshes the peer record of S and no other, and stores the record under
\* the key (filename, O) and no other.
C10_SenderOriginSeparation ==
    [][(WellFormedRecv(lastOp') /\ nRecv' = nRecv + 1)
          => /\ MacsOf(peers') = MacsOf(peers) \cup {lastOp'.mac}
             /\ \E i \in 1..Len(peers') :
                   /\ peers'[i].mac = lastOp'.mac
                   /\ peers'[i].lastSeen = millis(now')
                   /\ peers'[i].ssid = lastOp'.data.nodeSSID
             /\ KeysOf(remoteFiles') = KeysOf(remoteFiles)
                   \cup {<<lastOp'.data.filename, lastOp'.data.sourceNode>>}
             /\ \E i \in 1..Len(remoteFiles') : remoteFiles'[i] = lastOp'.data]_vars

\* a datagram whose sender is not its origin has just been received: the
\* origin is no peer and the sender owns no catalog entry
C10_Witness ==
    /\ WellFormedRecv(lastOp)
    /\ lastOp.mac # lastOp.data.sourceNode
    /\ lastOp.data.sourceNode \notin MacsOf(peers)
    /\ \A i \in 1..Len(remoteFiles) : remoteFiles[i].sourceNode # lastOp.mac

\* C11: after the receive path applies a well-formed record r, exactly one entry
\* of remoteFiles has r's (filename, sourceNode) key, and its filesize and
\* nodeSSID are r's; the number of entries is unchanged if the key was there
\* before, and one more if it was not.
C11_ReplaceInPlace ==
    [][(WellFormedRecv(lastOp') /\ nRecv' = nRecv + 1)
          => LET r == lastOp'.data
                 hits == {i \in 1..Len(remoteFiles') : SameKey(remoteFiles'[i], r)}
             IN  /\ Cardinality(hits) = 1
                 /\ \A i \in hits : /\ remoteFiles'[i].filesize = r.filesize
                                    /\ remoteFiles'[i].nodeSSID = r.nodeSSID
                 /\ Len(remoteFiles') =
                       IF <<r.filename, r.sourceNode>> \in KeysOf(remoteFiles)
                       THEN Len(remoteFiles)
                       ELSE Len(remoteFiles) + 1]_vars

\* a record has just replaced an entry of another size, next to an entry of
\* another origin
C11_Witness ==
    /\ WellFormedRecv(lastOp)
    /\ lastOp.old # <<>>
    /\ lastOp.old[1].filesize # lastOp.data.filesize
    /\ Len(remoteFiles) = 2

\* C12: a sweep leaves remoteFiles exactly as it was, and no step of the node
\* (sweep, tick, receive of any length, send callback, passing time) takes a
\* (filename, sourceNode) key out of remoteFiles.
C12_CatalogOutlivesPeer ==
    [][/\ KeysOf(remoteFiles) \subseteq KeysOf(remoteFiles')
       /\ lastOp'.op = "tick" => remoteFiles' = remoteFiles]_vars

\* a sweep has just removed a peer whose record is still in remoteFiles
C12_Witness ==
    /\ lastOp.op = "tick"
    /\ \E m \in lastOp.evicted :
          /\ m \notin MacsOf(peers)
          /\ \E i \in 1..Len(remoteFiles) : remoteFiles[i].sourceNode = m

\* the sends of one phase in the log of a pass
PhaseOf(log, phase) ==
    LET InPhase(e) == e.phase = phase
    IN  SelectSeq(log, InPhase)

\* C13: within a pass of broadcastFiles every resend comes before the first
\* fresh broadcast, and there are no more resends than tickets queued before
\* the pass: a ticket the pass itself enqueues is not resent in that pass.
C13_RetryBeforeFresh ==
    [][lastOp'.op = "tick"
          => LET log == lastOp'.log
             IN  /\ \A i, j \in 1..Len(log) :
                       (log[i].phase = "fresh" /\ log[j].phase = "retry") => j < i
                 /\ Len(PhaseOf(log, "retry")) <= Len(failedTransmissions)
                 /\ \A i \in 1..Len(log) :
                       log[i].phase = "retry"
                          => \E k \in 1..Len(failedTransmissions) :
                                failedTransmissions[k] = log[i].file]_vars

\* a pass has resent a queued ticket, then made its fresh broadcasts, one of
\* which was refused and enqueued
C13_Witness ==
    /\ lastOp.op = "tick"
    /\ Len(lastOp.log) >= 2
    /\ lastOp.log[1].phase = "retry"
    /\ \E j \in 2..Len(lastOp.log) :
          lastOp.log[j].phase = "fresh" /\ ~lastOp.log[j].ok

\* the fresh broadcasts of a pass that the transport refused
FreshRefused(log) ==
    LET Refused(e) == e.phase = "fresh" /\ ~e.ok
    IN  SelectSeq(log, Refused)

\* C14: the tickets a pass adds behind those its retry loop kept are exactly
\* the records of its refused fresh broadcasts, one each, in order; an
\* accepted fresh broadcast adds none.
C14_EnqueueOnSendFailure ==
    [][lastOp'.op = "tick"
          => LET refused == FreshRefused(lastOp'.log)
                 kept == lastOp'.kept
             IN  /\ kept <= Len(failedTransmissions)
                 /\ Len(failedTransmissions') = kept + Len(refused)
                 /\ \A i \in 1..Len(refused) :
                       failedTransmissions'[kept + i] = refused[i].file]_vars

\* a pass has had one fresh broadcast accepted and another refused, and holds
\* one ticket, for the refused one
C14_Witness ==
    /\ lastOp.op = "tick"
    /\ \E i, j \in 1..Len(lastOp.log) :
          /\ lastOp.log[i].phase = "fresh" /\ lastOp.log[i].ok
          /\ lastOp.log[j].phase = "fresh" /\ ~lastOp.log[j].ok
          /\ failedTransmissions = <<lastOp.log[j].file>>

\* C15: initializeESPNow calls esp_now_init at most INIT_ATTEMPTS times, also
\* when every call fails, and setup() then goes on: the node reaches loop().
C15_BoundedInit ==
    /\ [](boot.calls <= INIT_ATTEMPTS)
    /\ <>(boot.pc = "loop")

\* esp_now_init failed five times, and the node is in loop() with its web
\* server started and a broadcast pass behind it
C15_Witness ==
    /\ boot.pc = "loop"
    /\ ~boot.espnow
    /\ boot.calls = INIT_ATTEMPTS
    /\ boot.serving
    /\ lastOp.op = "tick"
    /\ lastOp.due

\* C16: with the receive callback free to run at any point of loop(), the
\* receive path never writes peers while peers.remove_if is under way.
C16_MutationAtomic == ~(sweep.pc = "remove_if" /\ WellFormedRecv(lastOp))

\* every allow-listed file of A's storage is in B's remoteFiles, under A's
\* address and with A's label
CatalogHasAll ==
    \A i \in 1..Len(LocalFiles) :
       AllowedName[LocalFiles[i].name]
          => \E k \in 1..Len(remoteFiles) :
                /\ remoteFiles[k].filename = LocalFiles[i].name
                /\ remoteFiles[k].filesize = LocalFiles[i].size
                /\ remoteFiles[k].sourceNode = OwnMac
                /\ remoteFiles[k].nodeSSID = AP_SSID

StalePeer(m) ==
    \E i \in 1..Len(peers) :
       /\ peers[i].mac = m
       /\ now - Val(peers[i].lastSeen) > PEER_TIMEOUT

\* C18: a peer last heard more than PEER_TIMEOUT ago does not stay in peers:
\* with loop() running it is removed (unless a datagram from it refreshes it
\* first), and an address that is not in peers comes back only by a
\* well-formed datagram from that address.
C18_StaleEvicted ==
    /\ \A m \in Senders : StalePeer(m) ~> ~StalePeer(m)
    /\ [][\A m \in Senders :
            (m \notin MacsOf(peers) /\ m \in MacsOf(peers'))
               => /\ WellFormedRecv(lastOp')
                  /\ lastOp'.mac = m
                  /\ nRecv' = nRecv + 1]_vars

\* a peer that had gone stale has been removed by a sweep and is still absent
C18_Witness ==
    /\ lastOp.op = "tick"
    /\ \E m \in lastOp.evicted : m \notin MacsOf(peers) /\ m \in Senders
    /\ Len(peers) = 1

\* C19: the receive callback does not wait: it returns at the time it was
\* called.
C19_NoBlocking ==
    [][(lastOp'.op = "recv" /\ nRecv' = nRecv + 1) => now' = now]_vars

\* the resends of a pass that the transport refused
ResendRefused(log) ==
    LET Refused(e) == e.phase = "retry" /\ ~e.ok
    IN  SelectSeq(log, Refused)

\* C20: when a pass resends one ticket whose retryCount is below MAX_RETRY and
\* the transport refuses it (and the pass enqueues nothing new), the ticket's
\* retryCount is one more than before, its lastTry is the time of the pass,
\* and the ticket is still queued.
C20_FailedResendBookkeeping ==
    [][(/\ lastOp'.op = "tick"
        /\ Len(ResendRefused(lastOp'.log)) = 1
        /\ FreshRefused(lastOp'.log) = <<>>)
          => LET ticket == ResendRefused(lastOp'.log)[1].file
                 macStr == StatusKey(ticket)
             IN  /\ sendStatuses'[macStr].retryCount = sendStatuses[macStr].retryCount + 1
                 /\ sendStatuses'[macStr].lastTry = millis(now)
                 /\ \E k \in 1..Len(failedTransmissions') :
                       failedTransmissions'[k] = ticket]_vars

\* how often a record occurs in a sequence of records
CountOf(seq, r) == Cardinality({i \in 1..Len(seq) : seq[i] = r})

\* sub is seq with some elements left out
RECURSIVE IsSubSeq(_, _)
IsSubSeq(sub, seq) ==
    IF sub = <<>> THEN TRUE
    ELSE IF seq = <<>> THEN FALSE
    ELSE IF Head(sub) = Head(seq) THEN IsSubSeq(Tail(sub), Tail(seq))
    ELSE IsSubSeq(sub, Tail(seq))

\* the resends of a pass that the transport accepted
ResendAccepted(log) ==
    LET Taken(e) == e.phase = "retry" /\ e.ok
    IN  SelectSeq(log, Taken)

\* C21: the retry loop of a pass removes a ticket exactly when its resend is
\* accepted or its retryCount has reached MAX_RETRY; the tickets it leaves
\* are all the others, unchanged and in their order.
C21_TicketRemoval ==
    [][lastOp'.op = "tick"
          => LET left == SubSeq(failedTransmissions', 1, lastOp'.kept)
                 taken == [i \in 1..Len(ResendAccepted(lastOp'.log)) |->
                              ResendAccepted(lastOp'.log)[i].file]
                 Spent(r) == /\ StatusKey(r) \in DOMAIN sendStatuses
                             /\ sendStatuses[StatusKey(r)].retryCount >= MAX_RETRY
             IN  /\ IsSubSeq(left, failedTransmissions)
                 /\ \A k \in 1..Len(failedTransmissions) :
                       LET r == failedTransmissions[k]
                       IN  CountOf(left, r) =
                              IF Spent(r) THEN 0
                              ELSE CountOf(failedTransmissions, r) - CountOf(taken, r)]_vars

\* a pass has had the resend of one ticket accepted and that of another
\* refused: the first is gone, the second still queued
C21_Witness ==
    /\ lastOp.op = "tick"
    /\ Len(ResendAccepted(lastOp.log)) = 1
    /\ Len(ResendRefused(lastOp.log)) = 1
    /\ lastOp.kept = 1
    /\ failedTransmissions[1] = ResendRefused(lastOp.log)[1].file
    /\ failedTransmissions[1] # ResendAccepted(lastOp.log)[1].file

\* the resends a pass attempted
ResendTried(log) ==
    LET Tried(e) == e.phase = "retry"
    IN  [i \in 1..Len(SelectSeq(log, Tried)) |-> SelectSeq(log, Tried)[i].file]

\* C22: a due pass comes at least BROADCAST_INTERVAL after the pass before it,
\* so the last send of every queued ticket is more than the retry spacing in
\* the past: the pass attempts a resend of every queued ticket whose
\* retryCount is below MAX_RETRY, whatever became of the resends before it.
C22_EveryEligibleServiced ==
    [][(lastOp'.op = "tick" /\ lastOp'.due)
          => \A k \in 1..Len(failedTransmissions) :
                LET r == failedTransmissions[k]
                    macStr == StatusKey(r)
                IN  (macStr \in DOMAIN sendStatuses
                       /\ sendStatuses[macStr].retryCount < MAX_RETRY)
                      => CountOf(ResendTried(lastOp'.log), r) =
                            CountOf(failedTransmissions, r)]_vars

\* the fresh sends of a pass
FreshTried(log) ==
    LET Tried(e) == e.phase = "fresh"
    IN  [i \in 1..Len(SelectSeq(log, Tried)) |-> SelectSeq(log, Tried)[i].file]

\* the records the claim expects for the files of a directory: one for each
\* file that passes isAllowedFile, with the file's name and size, this node's
\* address and this node's label
RECURSIVE ExpectedFresh(_)
ExpectedFresh(dir) ==
    IF dir = <<>> THEN <<>>
    ELSE (IF isAllowedFile(Head(dir).name)
          THEN <<[filename |-> Head(dir).name, filesize |-> Head(dir).size,
                  sourceNode |-> OwnMac, nodeSSID |-> AP_SSID]>>
          ELSE <<>>) \o ExpectedFresh(Tail(dir))

\* C23: the fresh sends of a pass that opened the directory are one for each
\* allow-listed file and none for another, each record with that file's name
\* and size, this node's own address and this node's own label.
C23_FreshContent ==
    [][(lastOp'.op = "tick" /\ lastOp'.sd)
          => FreshTried(lastOp'.log) = ExpectedFresh(card)]_vars

\* C24: after a well-formed datagram from sender S, peers holds a record of S
\* with the datagram's nodeSSID and the time of the receive as lastSeen: at
\* the end of the list if S was not there, at its old place if it was; the
\* records of all other addresses are as before.
C24_PeerUpsertFrame ==
    [][(WellFormedRecv(lastOp') /\ nRecv' = nRecv + 1)
          => LET S == lastOp'.mac
                 rec == [mac |-> S, lastSeen |-> millis(now'),
                         ssid |-> lastOp'.data.nodeSSID]
                 at == PeerIndex(peers, S)
             IN  IF at = 0
                 THEN peers' = Append(peers, rec)
                 ELSE /\ Len(peers') = Len(peers)
                      /\ peers'[at] = rec
                      /\ \A i \in 1..Len(peers) : i # at => peers'[i] = peers[i]]_vars

\* the first of two peers has just been refreshed where it stood; the other
\* keeps an older lastSeen
C24_Witness ==
    /\ WellFormedRecv(lastOp)
    /\ Len(peers) = 2
    /\ peers[1].mac = lastOp.mac
    /\ peers[1].lastSeen = millis(now)
    /\ peers[1].ssid = lastOp.data.nodeSSID
    /\ peers[2].lastSeen # millis(now)
    /\ nRecv = 3

\* C25: failedTransmissions never holds two tickets with the same filename and
\* sourceNode, so it is never longer than the number of allow-listed files
\* on the card.
C25_NoDuplicateTickets ==
    /\ \A i, j \in 1..Len(failedTransmissions) :
          SameKey(failedTransmissions[i], failedTransmissions[j]) => i = j
    /\ Len(failedTransmissions) <= Len(ExpectedFresh(card))

\* C26: a pass that neither resends a queued ticket nor has a fresh send of
\* its record refused, while the fresh send of another file is refused,
\* leaves the retryCount and the lastTry that govern the ticket as they were.
C26_PerTicketAccounting ==
    [][lastOp'.op = "tick"
          => \A k \in 1..Len(failedTransmissions) :
                LET ticket == failedTransmissions[k]
                    macStr == StatusKey(ticket)
                    refused == FreshRefused(lastOp'.log)
                IN  (/\ macStr \in DOMAIN sendStatuses
                     /\ CountOf(ResendTried(lastOp'.log), ticket) = 0
                     /\ \A i \in 1..Len(refused) : ~SameKey(refused[i].file, ticket)
                     /\ \E i \in 1..Len(refused) : ~SameKey(refused[i].file, ticket)
                     /\ \E i \in 1..lastOp'.kept : failedTransmissions'[i] = ticket)
                      => /\ sendStatuses'[macStr].retryCount >= sendStatuses[macStr].retryCount
                         /\ sendStatuses'[macStr].lastTry = sendStatuses[macStr].lastTry]_vars

\* C27: no step takes out of peers a record whose lastSeen is at most
\* PEER_TIMEOUT in the past, also when the receive callback has run between
\* the sweep's reading of the clock and its look at that record.
C27_NoLiveEviction ==
    [][\A i \in 1..Len(peers) :
          peers[i].mac \notin MacsOf(peers')
             => now - Val(peers[i].lastSeen) > PEER_TIMEOUT]_vars

\* the instants up to now at which the clock may have been read: every step
\* that lets time pass lets a multiple of LED_FLASH_DELAY pass
Instants == {now - LED_FLASH_DELAY * k : k \in 0..((MaxTime + WrapLead) \div LED_FLASH_DELAY)}

\* C28: in every run of updateNodeLinking the tick is due exactly when at
\* least BROADCAST_INTERVAL ms have truly passed since the clock reading kept
\* in lastBroadcast was taken, and a peer is removed exactly when more than
\* PEER_TIMEOUT ms have truly passed since its lastSeen was taken, also when
\* the 32-bit clock has wrapped between the two readings.
C28_WrapSafe ==
    [][lastOp'.op = "tick" =>
         \A t \in Instants :
            /\ lastBroadcast = millis(t)
                  => (lastOp'.due <=> now - t >= BROADCAST_INTERVAL)
            /\ \A i \in 1..Len(peers) :
                  peers[i].lastSeen = millis(t)
                     => (peers[i].mac \in lastOp'.evicted <=> now - t > PEER_TIMEOUT)]_vars

\* a tick after the wrap that is due since a broadcast before the wrap and
\* removes a peer last heard before the wrap
C28_Witness ==
    /\ lastOp.op = "tick"
    /\ now >= 0
    /\ now < BROADCAST_INTERVAL
    /\ lastOp.due
    /\ lastOp.evicted # {}

\* C29: for every record of peers, the listing handleNodeFiles gives for the
\* node link of that record holds only entries whose sourceNode is the
\* record's mac.
C29_ListingProvenance ==
    \A i \in 1..Len(peers) :
       \A k \in 1..Len(handleNodeFiles(handleFileList[i])) :
          handleNodeFiles(handleFileList[i])[k].sourceNode = peers[i].mac

\* C30: a run of the send callback leaves peers, remoteFiles and
\* failedTransmissions as they are and creates no status; one reporting
\* success leaves sendStatuses as it is, one reporting failure for address D
\* changes at most the status kept under D, whose success becomes false and
\* whose retryCount grows by one.
C30_SendCallbackFrame ==
    [][lastOp'.op = "sendcb" =>
         LET D == MacStringOf[lastOp'.mac]
         IN  /\ peers' = peers
             /\ remoteFiles' = remoteFiles
             /\ failedTransmissions' = failedTransmissions
             /\ DOMAIN sendStatuses' = DOMAIN sendStatuses
             /\ \A k \in DOMAIN sendStatuses :
                   (k # D \/ lastOp'.status = 0) => sendStatuses'[k] = sendStatuses[k]
             /\ (lastOp'.status # 0 /\ D \in DOMAIN sendStatuses)
                   => sendStatuses'[D] = [sendStatuses[D] EXCEPT !.success = FALSE,
                                                                 !.retryCount = @ + 1]]_vars

\* the callback has reported a failure while a status and a ticket exist
C30_Witness ==
    /\ lastOp.op = "sendcb"
    /\ lastOp.status # 0
    /\ sendStatuses # <<>>
    /\ failedTransmissions # <<>>
====
